---- MODULE Spec2Model ----
(***************************************************************************)
(* Model of src/app.py: the Flask chat endpoint that resolves an answer    *)
(* from the knowledge store, then the web search client, then the hosted   *)
(* generation client, with the truncated-last-word heuristic and repair.   *)
(*                                                                         *)
(* A Python str is a sequence of characters.  A character is a one-letter  *)
(* TLA+ string; the non-ASCII characters of the program's literals are     *)
(* named: "eacute", "Eacute", "agrave", "ocirc", "hellip" (the ellipsis    *)
(* U+2026) and "arabic3" (the Arabic-Indic digit three, U+0663).           *)
(***************************************************************************)
EXTENDS Integers, Sequences, FiniteSets, TLC

VARIABLES
    running,               \* the module-level code of app.py finished without raising
    knowledge_base,        \* app.py:55-59, the dict, as its items in insertion order
    conversation_history,  \* app.py:47-53, the list of turns
    knowledge_file,        \* content of KNOWLEDGE_FILE on disk
    history_file,          \* content of HISTORY_FILE on disk
    locals,                \* per request thread: position in chat() and its local variables
    reply,                 \* per request thread: the HTTP response of its latest request
    tr_text,               \* is_last_word_truncated under test: argument text
    tr_min_word,           \* ... argument min_word_length
    tr_min_total,          \* ... argument min_total_length
    tr_result              \* ... returned value

vars == <<running, knowledge_base, conversation_history, knowledge_file, history_file,
          locals, reply, tr_text, tr_min_word, tr_min_total, tr_result>>

appVars == <<running, knowledge_base, conversation_history, knowledge_file, history_file,
             locals, reply>>

trVars == <<tr_text, tr_min_word, tr_min_total, tr_result>>

-----------------------------------------------------------------------------
(* Bounds of the model *)

\* Spec: largest number of turns the conversation log may reach
MaxTurns == 2

\* StoreSpec: largest number of chats accepted
MaxChats == 2

\* longest text handed to is_last_word_truncated in TruncSpec
MaxTextLen == 4

-----------------------------------------------------------------------------
(* Configuration defaults, app.py:26-27 *)

MIN_WORD_LENGTH_FOR_TRUNCATION == 2

MIN_TOTAL_LENGTH_FOR_TRUNCATION == 40

-----------------------------------------------------------------------------
(* Characters *)

UpperLetters ==
    <<"A", "B", "C", "D", "E", "F", "G", "H", "I", "J", "K", "L", "M", "N", "O", "P", "Q",
      "R", "S", "T", "U", "V", "W", "X", "Y", "Z", "Eacute">>

LowerLetters ==
    <<"a", "b", "c", "d", "e", "f", "g", "h", "i", "j", "k", "l", "m", "n", "o", "p", "q",
      "r", "s", "t", "u", "v", "w", "x", "y", "z", "eacute">>

\* [A-Za-z] of the regular expression at app.py:113
AsciiLetters == {UpperLetters[i] : i \in 1..26} \cup {LowerLetters[i] : i \in 1..26}

\* letters outside [A-Za-z] that \w matches under re.UNICODE
AccentedLetters == {"eacute", "Eacute", "agrave", "ocirc"}

\* \d of a str pattern: every Unicode decimal digit
Digits == {"0", "1", "2", "3", "4", "5", "6", "7", "8", "9", "arabic3"}

\* \w of a str pattern under re.UNICODE
WordChars == AsciiLetters \cup AccentedLetters \cup Digits \cup {"_"}

\* what str.strip() and str.lstrip() remove
Whitespace == {" ", "\t", "\n", "\r", "\f"}

\* variant of TerminalPunctuation: the marks the docstring at app.py:82 names
TerminalPunctuationOfDocstring == {".", "!", "?", "hellip"}

\* the tuple passed to str.endswith at app.py:93 and app.py:299
TerminalPunctuation == {".", "!", "?", "hellip", ";", ":"}

-----------------------------------------------------------------------------
(* Python str methods *)

MinOf(S) == CHOOSE x \in S : \A y \in S : x <= y

MaxOf(S) == CHOOSE x \in S : \A y \in S : y <= x

\* str.lower() on one character
lowerChar(c) ==
    IF \E i \in 1..Len(UpperLetters) : UpperLetters[i] = c
    THEN LowerLetters[CHOOSE i \in 1..Len(UpperLetters) : UpperLetters[i] = c]
    ELSE c

\* str.lower()
lower(s) == [i \in 1..Len(s) |-> lowerChar(s[i])]

\* str.strip()
strip(s) ==
    LET keep == {i \in 1..Len(s) : s[i] \notin Whitespace}
    IN  IF keep = {} THEN <<>> ELSE SubSeq(s, MinOf(keep), MaxOf(keep))

\* str.lstrip()
lstrip(s) ==
    LET keep == {i \in 1..Len(s) : s[i] \notin Whitespace}
    IN  IF keep = {} THEN <<>> ELSE SubSeq(s, MinOf(keep), Len(s))

\* str.startswith(prefix)
startswith(s, prefix) ==
    /\ Len(prefix) <= Len(s)
    /\ SubSeq(s, 1, Len(prefix)) = prefix

\* str.endswith(tuple of one-character strings)
endswith(s, chars) == Len(s) > 0 /\ s[Len(s)] \in chars

-----------------------------------------------------------------------------
(* Values of JSON fields and of Python variables that may not hold a str *)

Str(s) == [tag |-> "str", val |-> s]

\* a key that is absent from a JSON object, or a Python name that is not bound
Absent == [tag |-> "absent", val |-> <<>>]

\* a JSON value that is not a string: null, a number, an array, an object
NonStr == [tag |-> "nonstr", val |-> <<>>]

\* Python truth value of a JSON field read with dict.get; the non-string values
\* modelled are the truthy ones (a non-zero number, a non-empty array or object)
Truthy(v) == v.tag = "nonstr" \/ (v.tag = "str" /\ v.val # <<>>)

-----------------------------------------------------------------------------
(* String literals of app.py and the texts the external services return *)

\* 'Le serveur Hugging Face met trop de temps a repondre.'  (53 characters)
HF_TIMEOUT_MESSAGE ==
    <<"L", "e", " ", "s", "e", "r", "v", "e", "u", "r", " ", "H", "u", "g", "g", "i", "n", "g",
    " ", "F", "a", "c", "e", " ", "m", "e", "t", " ", "t", "r", "o", "p", " ", "d", "e", " ",
    "t", "e", "m", "p", "s", " ", "agrave", " ", "r", "eacute", "p", "o", "n", "d", "r", "e",
    ".">>

\* 'Erreur de connexion a Hugging Face.'  (35 characters)
HF_NETWORK_MESSAGE ==
    <<"E", "r", "r", "e", "u", "r", " ", "d", "e", " ", "c", "o", "n", "n", "e", "x", "i", "o",
    "n", " ", "agrave", " ", "H", "u", "g", "g", "i", "n", "g", " ", "F", "a", "c", "e", ".">>

\* 'Une erreur est survenue lors du traitement.'  (43 characters)
HF_UNEXPECTED_MESSAGE ==
    <<"U", "n", "e", " ", "e", "r", "r", "e", "u", "r", " ", "e", "s", "t", " ", "s", "u", "r",
    "v", "e", "n", "u", "e", " ", "l", "o", "r", "s", " ", "d", "u", " ", "t", "r", "a", "i",
    "t", "e", "m", "e", "n", "t", ".">>

\* 'Erreur lors de la generation de texte.'  (38 characters)
HF_ERROR_FIELD_MESSAGE ==
    <<"E", "r", "r", "e", "u", "r", " ", "l", "o", "r", "s", " ", "d", "e", " ", "l", "a", " ",
    "g", "eacute", "n", "eacute", "r", "a", "t", "i", "o", "n", " ", "d", "e", " ", "t", "e",
    "x", "t", "e", ".">>

\* 'Erreur : le serveur de recherche met trop de temps a repondre.'  (62 characters)
SERP_TIMEOUT_MESSAGE ==
    <<"E", "r", "r", "e", "u", "r", " ", ":", " ", "l", "e", " ", "s", "e", "r", "v", "e", "u",
    "r", " ", "d", "e", " ", "r", "e", "c", "h", "e", "r", "c", "h", "e", " ", "m", "e", "t",
    " ", "t", "r", "o", "p", " ", "d", "e", " ", "t", "e", "m", "p", "s", " ", "agrave", " ",
    "r", "eacute", "p", "o", "n", "d", "r", "e", ".">>

\* 'Erreur de connexion a SerpAPI.'  (30 characters)
SERP_NETWORK_MESSAGE ==
    <<"E", "r", "r", "e", "u", "r", " ", "d", "e", " ", "c", "o", "n", "n", "e", "x", "i", "o",
    "n", " ", "agrave", " ", "S", "e", "r", "p", "A", "P", "I", ".">>

\* 'Erreur inattendue lors de la recherche.'  (39 characters)
SERP_UNEXPECTED_MESSAGE ==
    <<"E", "r", "r", "e", "u", "r", " ", "i", "n", "a", "t", "t", "e", "n", "d", "u", "e", " ",
    "l", "o", "r", "s", " ", "d", "e", " ", "l", "a", " ", "r", "e", "c", "h", "e", "r", "c",
    "h", "e", ".">>

\* 'Erreur'  (6 characters)
ERREUR ==
    <<"E", "r", "r", "e", "u", "r">>

\* 'Desole'  (6 characters)
DESOLE ==
    <<"D", "eacute", "s", "o", "l", "eacute">>

\* 'Utilisateur'  (11 characters)
DEFAULT_USERNAME ==
    <<"U", "t", "i", "l", "i", "s", "a", "t", "e", "u", "r">>

\* 'Assistant'  (9 characters)
ASSISTANT_NAME ==
    <<"A", "s", "s", "i", "s", "t", "a", "n", "t">>

\* 'Nouvelle connaissance enregistree '  (35 characters)
TEACH_OK_MESSAGE ==
    <<"N", "o", "u", "v", "e", "l", "l", "e", " ", "c", "o", "n", "n", "a", "i", "s", "s", "a",
    "n", "c", "e", " ", "e", "n", "r", "e", "g", "i", "s", "t", "r", "eacute", "e", " ",
    "checkmark">>

\* 'Message invalide'  (16 characters)
CHAT_INVALID_MESSAGE ==
    <<"M", "e", "s", "s", "a", "g", "e", " ", "i", "n", "v", "a", "l", "i", "d", "e">>

\* 'Question et reponse requises'  (28 characters)
TEACH_INVALID_MESSAGE ==
    <<"Q", "u", "e", "s", "t", "i", "o", "n", " ", "e", "t", " ", "r", "eacute", "p", "o", "n",
    "s", "e", " ", "r", "e", "q", "u", "i", "s", "e", "s">>

\* 'Abidjan est la plus grande vi'  (29 characters)
TextShortVi ==
    <<"A", "b", "i", "d", "j", "a", "n", " ", "e", "s", "t", " ", "l", "a", " ", "p", "l", "u",
    "s", " ", "g", "r", "a", "n", "d", "e", " ", "v", "i">>

\* "En Cote d'Ivoire, Abidjan est la plus grande vi"  (47 characters)
TextLongVi ==
    <<"E", "n", " ", "C", "ocirc", "t", "e", " ", "d", "'", "I", "v", "o", "i", "r", "e", ",",
    " ", "A", "b", "i", "d", "j", "a", "n", " ", "e", "s", "t", " ", "l", "a", " ", "p", "l",
    "u", "s", " ", "g", "r", "a", "n", "d", "e", " ", "v", "i">>

\* 'Abidjan est la plus grande ville.'  (33 characters)
TextVille ==
    <<"A", "b", "i", "d", "j", "a", "n", " ", "e", "s", "t", " ", "l", "a", " ", "p", "l", "u",
    "s", " ", "g", "r", "a", "n", "d", "e", " ", "v", "i", "l", "l", "e", ".">>

\* "En Cote d'Ivoire, Abidjan est la plus grande ville."  (51 characters)
TextLongVille ==
    <<"E", "n", " ", "C", "ocirc", "t", "e", " ", "d", "'", "I", "v", "o", "i", "r", "e", ",",
    " ", "A", "b", "i", "d", "j", "a", "n", " ", "e", "s", "t", " ", "l", "a", " ", "p", "l",
    "u", "s", " ", "g", "r", "a", "n", "d", "e", " ", "v", "i", "l", "l", "e", ".">>

\* 'lle.'  (4 characters)
CompletionLle ==
    <<"l", "l", "e", ".">>

\* 'lle'  (3 characters)
CompletionLleBare ==
    <<"l", "l", "e">>

\* "{'detail': 'Model is currently loading', 'estimated_time': 20}"  (62 characters)
ReprLoading ==
    <<"{", "'", "d", "e", "t", "a", "i", "l", "'", ":", " ", "'", "M", "o", "d", "e", "l", " ",
    "i", "s", " ", "c", "u", "r", "r", "e", "n", "t", "l", "y", " ", "l", "o", "a", "d", "i",
    "n", "g", "'", ",", " ", "'", "e", "s", "t", "i", "m", "a", "t", "e", "d", "_", "t", "i",
    "m", "e", "'", ":", " ", "2", "0", "}">>

\* 'Yamoussoukro'  (12 characters)
SnippetYamoussoukro ==
    <<"Y", "a", "m", "o", "u", "s", "s", "o", "u", "k", "r", "o">>

\* 'Erreur 404'  (10 characters)
SnippetErreur404 ==
    <<"E", "r", "r", "e", "u", "r", " ", "4", "0", "4">>

-----------------------------------------------------------------------------
(* Truncation heuristic, app.py:78-117 *)

\* tokens[-1] of re.findall(r"\w+", t): the maximal run of word characters that
\* ends at the last word character of t; <<>> when t has no word character
LastToken(t) ==
    LET word == {i \in 1..Len(t) : t[i] \in WordChars}
    IN  IF word = {} THEN <<>>
        ELSE LET e == MaxOf(word)
                 b == MinOf({j \in 1..e : \A k \in j..e : k \in word})
             IN  SubSeq(t, b, e)

\* re.search(r"[A-Za-z]\d$|\d[A-Za-z]$", last)
MixedEnding(last) ==
    LET n == Len(last)
    IN  /\ n >= 2
        /\ \/ last[n - 1] \in AsciiLetters /\ last[n] \in Digits
           \/ last[n - 1] \in Digits /\ last[n] \in AsciiLetters

\* variant of is_last_word_truncated: without the length test of app.py:97
is_last_word_truncated_any_length(text, min_word_length, min_total_length) ==
    LET t == strip(text)
        last == LastToken(t)
    IN  IF text = <<>> THEN FALSE
        ELSE IF endswith(t, TerminalPunctuation) THEN FALSE
        ELSE IF last = <<>> THEN FALSE
        ELSE IF Len(last) <= min_word_length THEN TRUE
        ELSE IF MixedEnding(last) THEN TRUE
        ELSE FALSE

\* variant of is_last_word_truncated: < for <= at app.py:108
is_last_word_truncated_strict(text, min_word_length, min_total_length) ==
    LET t == strip(text)
        last == LastToken(t)
    IN  IF text = <<>> THEN FALSE
        ELSE IF endswith(t, TerminalPunctuation) THEN FALSE
        ELSE IF Len(t) < min_total_length THEN FALSE
        ELSE IF last = <<>> THEN FALSE
        ELSE IF Len(last) < min_word_length THEN TRUE
        ELSE IF MixedEnding(last) THEN TRUE
        ELSE FALSE

is_last_word_truncated(text, min_word_length, min_total_length) ==
    LET t == strip(text)
        last == LastToken(t)
    IN  IF text = <<>> THEN FALSE
        ELSE IF endswith(t, TerminalPunctuation) THEN FALSE
        ELSE IF Len(t) < min_total_length THEN FALSE
        ELSE IF last = <<>> THEN FALSE
        ELSE IF Len(last) <= min_word_length THEN TRUE
        ELSE IF MixedEnding(last) THEN TRUE
        ELSE FALSE

-----------------------------------------------------------------------------
(* What the external services answer.  A call either raises inside requests  *)
(* or yields a decoded JSON document.                                        *)

Timeout == [kind |-> "timeout"]

\* requests.RequestException other than Timeout (connection error, HTTP error status)
NetworkError == [kind |-> "network"]

\* any other exception raised inside the try block
OtherError == [kind |-> "other"]

\* generation API document {"generated_text": v}
HfDict(v) == [kind |-> "json", shape |-> "dict", generated_text |-> v, repr |-> <<>>]

\* generation API document [{"generated_text": v}]
HfList(v) == [kind |-> "json", shape |-> "list", generated_text |-> v, repr |-> <<>>]

\* generation API document {"error": ...} without generated_text
HfErrorField == [kind |-> "json", shape |-> "dict_error", generated_text |-> Absent, repr |-> <<>>]

\* generation API document: an object with neither generated_text nor error,
\* r is what str(data) gives for it
HfOther(r) == [kind |-> "json", shape |-> "dict_other", generated_text |-> Absent, repr |-> r]

\* generation API document []
HfEmptyList == [kind |-> "json", shape |-> "list_empty", generated_text |-> Absent, repr |-> <<>>]

\* search API document, by the three fields search_serapi reads
SerpDoc(answer, snippet, organic) ==
    [kind |-> "json", answer |-> answer, snippet |-> snippet, organic |-> organic]

-----------------------------------------------------------------------------
(* Clients *)

\* the str a failed search turns into, app.py:231-239
SearchFailureMessage(out) ==
    CASE out.kind = "timeout" -> SERP_TIMEOUT_MESSAGE
      [] out.kind = "network" -> SERP_NETWORK_MESSAGE
      [] OTHER -> SERP_UNEXPECTED_MESSAGE

\* search_serapi, app.py:214-239; the value returned, a str unless the chosen
\* field of the document is not one
search_serapi(out) ==
    IF out.kind # "json" THEN Str(SearchFailureMessage(out))
    ELSE IF Truthy(out.answer) THEN out.answer
    ELSE IF Truthy(out.snippet) THEN out.snippet
    ELSE IF Truthy(out.organic) THEN out.organic
    ELSE Str(<<>>)

\* query_hf, app.py:173-212; the value returned, a str unless generated_text
\* is not one
query_hf(out) ==
    CASE out.kind = "timeout" -> Str(HF_TIMEOUT_MESSAGE)
      [] out.kind = "network" -> Str(HF_NETWORK_MESSAGE)
      [] out.kind = "other" -> Str(HF_UNEXPECTED_MESSAGE)
      [] out.kind = "json" /\ out.shape \in {"dict", "list"} -> out.generated_text
      [] out.kind = "json" /\ out.shape = "dict_error" -> Str(HF_ERROR_FIELD_MESSAGE)
      [] out.kind = "json" /\ out.shape = "dict_other" -> Str(out.repr)
      [] out.kind = "json" /\ out.shape = "list_empty" -> Str(HF_UNEXPECTED_MESSAGE)

\* the generation call failed: it raised, or its document carries no generated_text
HfFailed(out) == out.kind # "json" \/ out.shape \notin {"dict", "list"}

\* complete_last_word, app.py:119-168; Absent is None
complete_last_word(out, partial_text) ==
    IF out.kind # "json" THEN Absent
    ELSE IF out.shape \notin {"dict", "list"} THEN Absent
    ELSE IF out.generated_text.tag # "str" THEN Absent
    ELSE LET cont == strip(out.generated_text.val)
         IN  IF startswith(cont, partial_text)
             THEN LET extra == lstrip(SubSeq(cont, Len(partial_text) + 1, Len(cont)))
                  IN  IF extra # <<>> THEN Str(extra) ELSE Absent
             ELSE Str(cont)

\* variant of Splice: a blank is put between the text and the completion when the
\* text does not end in one, which the test at app.py:295 prepares and line 296
\* does not do
SpliceWithSeparator(generated, extra) ==
    LET sep == IF endswith(generated, {" "}) THEN <<>> ELSE <<" ">>
        joined == strip(generated \o sep \o extra)
    IN  IF endswith(joined, TerminalPunctuation) THEN joined ELSE joined \o <<".">>

\* the splice of chat, app.py:295-300
Splice(generated, extra) ==
    LET joined == strip(generated \o extra)
    IN  IF endswith(joined, TerminalPunctuation) THEN joined ELSE joined \o <<".">>

-----------------------------------------------------------------------------
(* Stores and files *)

FileAbsent == [state |-> "absent", doc |-> <<>>]

\* a file that json.load cannot read: cut short, empty, or not JSON
FileCorrupt == [state |-> "corrupt", doc |-> <<>>]

FileDoc(d) == [state |-> "doc", doc |-> d]

\* outcomes of open(..., "w") followed by json.dump
WriteOutcomes == {"ok", "open_fails", "dump_fails"}

\* variant of WriteFile: the file is opened for appending and only the items
\* beyond those it already holds are written after them
WriteFileAppending(file, doc, w) ==
    CASE w = "ok" -> FileDoc(file.doc \o SubSeq(doc, Len(file.doc) + 1, Len(doc)))
      [] w = "open_fails" -> file
      [] w = "dump_fails" -> FileCorrupt

\* the file after save_history / save_knowledge tried to write doc, app.py:61-73:
\* open(..., "w") empties the file before json.dump writes
WriteFile(file, doc, w) ==
    CASE w = "ok" -> FileDoc(doc)
      [] w = "open_fails" -> file
      [] w = "dump_fails" -> FileCorrupt

\* variant of SaveRaises: the write is made outside a try block
SaveRaisesOnFailure(w) == w # "ok"

\* save_history / save_knowledge let an exception of the write reach the caller:
\* never, the except clauses of app.py:65 and app.py:72 catch every Exception
SaveRaises(w) == FALSE

\* key in knowledge_base
HasKey(kb, key) == \E i \in 1..Len(kb) : kb[i].key = key

\* knowledge_base[key]
Lookup(kb, key) == kb[CHOOSE i \in 1..Len(kb) : kb[i].key = key].value

\* knowledge_base[key] = value
Store(kb, key, value) ==
    IF HasKey(kb, key)
    THEN [i \in 1..Len(kb) |-> IF kb[i].key = key THEN [key |-> key, value |-> value] ELSE kb[i]]
    ELSE Append(kb, [key |-> key, value |-> value])

Turn(role, name, content) == [role |-> role, name |-> name, content |-> content]

-----------------------------------------------------------------------------
(* Requests and replies *)

Threads == {"t1", "t2"}

\* the worker that serves requests one at a time
SeqThreads == {"t1"}

IdleLocals ==
    [pc |-> "idle", request |-> [endpoint |-> "none"], user_input |-> <<>>, username |-> <<>>,
     web_answer |-> Absent, answer |-> Absent, source |-> "", generated |-> Absent,
     extra |-> Absent, calls |-> <<>>, write |-> "none", dumped |-> <<>>]

NoReply == [endpoint |-> "none", status |-> 0, response |-> <<>>, source |-> "", detail |-> <<>>]

ChatReply(answer, source) ==
    [endpoint |-> "chat", status |-> 200, response |-> answer, source |-> source, detail |-> <<>>]

ChatInvalid ==
    [endpoint |-> "chat", status |-> 400, response |-> <<>>, source |-> "",
     detail |-> CHAT_INVALID_MESSAGE]

\* an exception left chat(): Flask answers 500
ChatFault == [endpoint |-> "chat", status |-> 500, response |-> <<>>, source |-> "", detail |-> <<>>]

TeachReply ==
    [endpoint |-> "teach", status |-> 200, response |-> <<>>, source |-> "",
     detail |-> TEACH_OK_MESSAGE]

TeachInvalid ==
    [endpoint |-> "teach", status |-> 400, response |-> <<>>, source |-> "",
     detail |-> TEACH_INVALID_MESSAGE]

\* an exception left teach(): Flask answers 500
TeachFault == [endpoint |-> "teach", status |-> 500, response |-> <<>>, source |-> "", detail |-> <<>>]

\* data.get(key, default) of a request body whose fields are strings or absent
GetField(v, default) == IF v.tag = "absent" THEN default ELSE v.val

\* request bodies of POST /chat
ChatBodies ==
    {[message |-> Str(<<"Q">>), username |-> Absent],
     [message |-> Str(<<" ", "q", " ">>), username |-> Str(<<"A", "w", "a">>)],
     [message |-> Absent, username |-> Absent],
     [message |-> Str(<<>>), username |-> Absent],
     [message |-> Str(<<" ", " ">>), username |-> Str(<<"A", "w", "a">>)]}

\* the message of a chat body is accepted at app.py:254
Validated(body) == strip(GetField(body.message, <<>>)) # <<>>

\* request bodies of POST /teach
TeachBodies ==
    {[question |-> Str(<<"Q">>), answer |-> Str(<<"a">>)],
     [question |-> Str(<<" ", "q">>), answer |-> Str(<<" ", "b", " ">>)],
     [question |-> Absent, answer |-> Str(<<"a">>)],
     [question |-> Str(<<" ">>), answer |-> Str(<<"b">>)],
     [question |-> Str(<<"Q">>), answer |-> Absent],
     [question |-> Str(<<"q">>), answer |-> Str(<<>>)],
     [question |-> Str(<<"Q">>), answer |-> Str(<<" ", " ">>)]}

\* answers of the search API
SearchOutcomes ==
    {Timeout, NetworkError, OtherError,
     SerpDoc(Absent, Absent, Absent),
     SerpDoc(Str(<<" ", " ">>), Absent, Absent),
     SerpDoc(Absent, Str(<<>>), Str(SnippetYamoussoukro)),
     SerpDoc(Str(SnippetErreur404), Absent, Str(SnippetYamoussoukro)),
     SerpDoc(NonStr, Absent, Absent)}

\* answers of the generation API to the primary call
HfOutcomes ==
    {Timeout, NetworkError, OtherError, HfErrorField, HfEmptyList, HfOther(ReprLoading),
     HfDict(Str(TextShortVi)), HfDict(Str(TextLongVi)), HfList(Str(TextLongVi)),
     HfDict(Str(TextVille)), HfDict(NonStr), HfDict(Str(<<" ">> \o TextLongVi))}

\* answers of the generation API to the repair call for partial_text
RepairOutcomes(partial_text) ==
    {Timeout, NetworkError, HfErrorField, HfDict(NonStr),
     HfDict(Str(<<>>)), HfList(Str(CompletionLle)), HfDict(Str(<<" ">> \o CompletionLleBare)),
     HfDict(Str(partial_text)), HfDict(Str(partial_text \o CompletionLle))}

-----------------------------------------------------------------------------
(* Start of the process, app.py:47-59 *)

\* conversation_history after app.py:47-53: a read failure is caught
LoadHistory(file) == IF file.state = "doc" THEN file.doc ELSE <<>>

\* app.py:55-59 reads an existing knowledge file outside any try block
KnowledgeLoads(file) == file.state # "corrupt"

LoadKnowledge(file) == IF file.state = "doc" THEN file.doc ELSE <<>>

TrIdle ==
    /\ tr_text = <<>>
    /\ tr_min_word = MIN_WORD_LENGTH_FOR_TRUNCATION
    /\ tr_min_total = MIN_TOTAL_LENGTH_FOR_TRUNCATION
    /\ tr_result = FALSE

Init ==
    /\ history_file \in {FileAbsent, FileCorrupt}
    /\ knowledge_file \in {FileAbsent, FileCorrupt}
    /\ running = KnowledgeLoads(knowledge_file)
    /\ conversation_history = LoadHistory(history_file)
    /\ knowledge_base = LoadKnowledge(knowledge_file)
    /\ locals = [t \in Threads |-> IdleLocals]
    /\ reply = [t \in Threads |-> NoReply]
    /\ TrIdle

-----------------------------------------------------------------------------
(* POST /chat, app.py:248-309 *)

Called(l, fn, out) == Append(l.calls, [fn |-> fn, out |-> out])

\* variant of CacheKey: the message is looked up as typed, without lower()
CacheKeyVerbatim(user_input) == user_input

\* the key looked up at app.py:260-261
CacheKey(user_input) == lower(user_input)

\* variant of ChatMessage: the message is not trimmed before the test of app.py:254
ChatMessageUntrimmed(body) == GetField(body.message, <<>>)

\* user_input of app.py:251
ChatMessage(body) == strip(GetField(body.message, <<>>))

\* app.py:250-257: read the body, reject an empty message, append the user turn
ChatStart(t, body) ==
    LET user_input == ChatMessage(body)
        username == GetField(body.username, DEFAULT_USERNAME)
        request == [endpoint |-> "chat", body |-> body]
    IN  /\ running
        /\ locals[t].pc = "idle"
        /\ IF user_input = <<>>
           THEN /\ locals' = [locals EXCEPT ![t] = [IdleLocals EXCEPT !.request = request]]
                /\ reply' = [reply EXCEPT ![t] = ChatInvalid]
                /\ UNCHANGED conversation_history
           ELSE /\ conversation_history' =
                       Append(conversation_history, Turn("user", username, user_input))
                /\ locals' = [locals EXCEPT ![t] =
                       [IdleLocals EXCEPT !.pc = "check_cache", !.request = request,
                                          !.user_input = user_input, !.username = username]]
                /\ reply' = [reply EXCEPT ![t] = NoReply]
        /\ UNCHANGED <<running, knowledge_base, knowledge_file, history_file>>
        /\ UNCHANGED trVars

\* app.py:259-262: exact lookup in the knowledge store
CheckCache(t) ==
    LET l == locals[t]
        key == CacheKey(l.user_input)
    IN  /\ l.pc = "check_cache"
        /\ locals' = [locals EXCEPT ![t] =
               IF HasKey(knowledge_base, key)
               THEN [l EXCEPT !.answer = Str(Lookup(knowledge_base, key)),
                              !.source = "exact", !.pc = "finalize"]
               ELSE [l EXCEPT !.pc = "check_web"]]
        /\ UNCHANGED <<running, knowledge_base, conversation_history, knowledge_file,
                       history_file, reply>>
        /\ UNCHANGED trVars

\* variant of Usable: without the startswith("Erreur") test of app.py:269
UsableWithoutMarkerTest(web_answer) ==
    /\ web_answer # <<>>
    /\ strip(web_answer) # <<>>

\* variant of Usable: a text that is too short is left to the generation as well,
\* as the comment at app.py:267 has it
UsableWhenLongEnough(web_answer) ==
    /\ web_answer # <<>>
    /\ strip(web_answer) # <<>>
    /\ ~startswith(web_answer, ERREUR)
    /\ Len(web_answer) >= MIN_TOTAL_LENGTH_FOR_TRUNCATION

\* the test of app.py:266 and 269: the search text is kept as the answer
Usable(web_answer) ==
    /\ web_answer # <<>>
    /\ strip(web_answer) # <<>>
    /\ ~startswith(web_answer, ERREUR)

\* app.py:264-276: web search; out is what the search API answered
CheckWeb(t, out) ==
    LET l == locals[t]
        web_answer == search_serapi(out)
        called == [l EXCEPT !.calls = Called(l, "search_serapi", out)]
    IN  /\ l.pc = "check_web"
        /\ IF web_answer.tag # "str"
           THEN \* web_answer.strip() raises AttributeError at app.py:266
                /\ locals' = [locals EXCEPT ![t] =
                       [called EXCEPT !.web_answer = web_answer, !.pc = "idle"]]
                /\ reply' = [reply EXCEPT ![t] = ChatFault]
           ELSE /\ locals' = [locals EXCEPT ![t] =
                       IF Usable(web_answer.val)
                       THEN [called EXCEPT !.web_answer = web_answer, !.answer = web_answer,
                                           !.source = "web", !.pc = "finalize"]
                       ELSE [called EXCEPT
                                !.web_answer = IF web_answer.val # <<>> /\ strip(web_answer.val) # <<>>
                                               THEN Str(<<>>) ELSE web_answer,
                                !.pc = "generate"]]
                /\ UNCHANGED reply
        /\ UNCHANGED <<running, knowledge_base, conversation_history, knowledge_file,
                       history_file>>
        /\ UNCHANGED trVars

\* the test of app.py:285: the generated text is taken for an error message
LooksLikeError(generated) == startswith(generated, ERREUR) \/ startswith(generated, DESOLE)

\* app.py:276-287: primary generation; out is what the generation API answered
Generate(t, out) ==
    LET l == locals[t]
        generated == query_hf(out)
        called == [l EXCEPT !.calls = Called(l, "query_hf", out), !.generated = generated,
                            !.source = "ai"]
    IN  /\ l.pc = "generate"
        /\ IF generated.tag # "str"
           THEN \* generated.startswith raises AttributeError at app.py:285
                /\ locals' = [locals EXCEPT ![t] = [called EXCEPT !.pc = "idle"]]
                /\ reply' = [reply EXCEPT ![t] = ChatFault]
           ELSE /\ locals' = [locals EXCEPT ![t] =
                       IF LooksLikeError(generated.val)
                       THEN [called EXCEPT !.answer = generated, !.pc = "finalize"]
                       ELSE [called EXCEPT !.pc = "truncation_check"]]
                /\ UNCHANGED reply
        /\ UNCHANGED <<running, knowledge_base, conversation_history, knowledge_file,
                       history_file>>
        /\ UNCHANGED trVars

\* app.py:289 and, when nothing is detected, app.py:304
TruncationCheck(t) ==
    LET l == locals[t]
    IN  /\ l.pc = "truncation_check"
        /\ locals' = [locals EXCEPT ![t] =
               IF is_last_word_truncated(l.generated.val, MIN_WORD_LENGTH_FOR_TRUNCATION,
                                         MIN_TOTAL_LENGTH_FOR_TRUNCATION)
               THEN [l EXCEPT !.pc = "repair"]
               ELSE [l EXCEPT !.answer = l.generated, !.pc = "finalize"]]
        /\ UNCHANGED <<running, knowledge_base, conversation_history, knowledge_file,
                       history_file, reply>>
        /\ UNCHANGED trVars

\* variant of Repaired: the text is stripped and punctuated also without a completion
RepairedAlwaysPunctuated(generated, extra) ==
    Splice(generated, IF extra.tag = "str" THEN extra.val ELSE <<>>)

\* generated after app.py:292-302: spliced when extra is a non-empty str, else kept
Repaired(generated, extra) ==
    IF extra.tag = "str" /\ extra.val # <<>> THEN Splice(generated, extra.val) ELSE generated

\* app.py:290-304: repair call and splice; out is what the generation API answered
Repair(t, out) ==
    LET l == locals[t]
        extra == complete_last_word(out, l.generated.val)
        generated == Str(Repaired(l.generated.val, extra))
    IN  /\ l.pc = "repair"
        /\ locals' = [locals EXCEPT ![t] =
               [l EXCEPT !.calls = Called(l, "complete_last_word", out), !.extra = extra,
                         !.generated = generated, !.answer = generated, !.pc = "finalize"]]
        /\ UNCHANGED <<running, knowledge_base, conversation_history, knowledge_file,
                       history_file, reply>>
        /\ UNCHANGED trVars

\* app.py:306: append the assistant turn
Finalize(t) ==
    LET l == locals[t]
    IN  /\ l.pc = "finalize"
        /\ conversation_history' =
               Append(conversation_history, Turn("assistant", ASSISTANT_NAME, l.answer.val))
        /\ locals' = [locals EXCEPT ![t] = [l EXCEPT !.pc = "save"]]
        /\ UNCHANGED <<running, knowledge_base, knowledge_file, history_file, reply>>
        /\ UNCHANGED trVars

\* app.py:307-309: save_history, then the response
Respond(t, w) ==
    LET l == locals[t]
    IN  /\ l.pc = "save"
        /\ history_file' = WriteFile(history_file, conversation_history, w)
        /\ locals' = [locals EXCEPT ![t] = [l EXCEPT !.pc = "idle", !.write = w]]
        /\ reply' = [reply EXCEPT ![t] =
               IF SaveRaises(w) THEN ChatFault ELSE ChatReply(l.answer.val, l.source)]
        /\ UNCHANGED <<running, knowledge_base, conversation_history, knowledge_file>>
        /\ UNCHANGED trVars

-----------------------------------------------------------------------------
(* POST /teach, app.py:311-323 *)

\* variant of TeachRejected: "and" for "or"
TeachRejectedWhenBothEmpty(question, answer) == question = <<>> /\ answer = <<>>

\* the test of app.py:317
TeachRejected(question, answer) == question = <<>> \/ answer = <<>>

Teach(t, body, w) ==
    LET question == strip(GetField(body.question, <<>>))
        answer == strip(GetField(body.answer, <<>>))
        request == [endpoint |-> "teach", body |-> body]
    IN  /\ running
        /\ locals[t].pc = "idle"
        /\ IF TeachRejected(question, answer)
           THEN /\ locals' = [locals EXCEPT ![t] = [IdleLocals EXCEPT !.request = request]]
                /\ reply' = [reply EXCEPT ![t] = TeachInvalid]
                /\ UNCHANGED <<knowledge_base, knowledge_file>>
           ELSE /\ locals' = [locals EXCEPT ![t] =
                       [IdleLocals EXCEPT !.request = request, !.write = w]]
                /\ knowledge_base' = Store(knowledge_base, lower(question), answer)
                /\ knowledge_file' = WriteFile(knowledge_file, knowledge_base', w)
                /\ reply' = [reply EXCEPT ![t] =
                       IF SaveRaises(w) THEN TeachFault ELSE TeachReply]
        /\ UNCHANGED <<running, conversation_history, history_file>>
        /\ UNCHANGED trVars

-----------------------------------------------------------------------------
(* Requests served one at a time *)

NoRequestInFlight == \A t \in Threads : locals[t].pc = "idle"

\* the log may take the two turns of one more chat
LogHasRoom == Len(conversation_history) + 2 <= MaxTurns

Next ==
    \/ \E t \in SeqThreads, body \in ChatBodies :
           /\ NoRequestInFlight
           /\ Validated(body) => LogHasRoom
           /\ ChatStart(t, body)
    \/ \E t \in SeqThreads : CheckCache(t)
    \/ \E t \in SeqThreads, out \in SearchOutcomes : CheckWeb(t, out)
    \/ \E t \in SeqThreads, out \in HfOutcomes : Generate(t, out)
    \/ \E t \in SeqThreads : TruncationCheck(t)
    \/ \E t \in SeqThreads : \E out \in RepairOutcomes(locals[t].generated.val) : Repair(t, out)
    \/ \E t \in SeqThreads : Finalize(t)
    \/ \E t \in SeqThreads, w \in WriteOutcomes : Respond(t, w)
    \/ \E t \in SeqThreads, body \in TeachBodies, w \in WriteOutcomes :
           NoRequestInFlight /\ Teach(t, body, w)

Spec == Init /\ [][Next]_vars

-----------------------------------------------------------------------------
(* Several chats and teaches in a row, with one answer of each kind from the *)
(* external services                                                         *)

StoreSearchOutcomes ==
    {SerpDoc(Absent, Absent, Absent), SerpDoc(Absent, Str(<<>>), Str(SnippetYamoussoukro))}

StoreHfOutcomes == {Timeout, HfDict(Str(TextLongVi))}

StoreRepairOutcomes == {Timeout, HfList(Str(CompletionLle))}

StoreChatBodies ==
    {[message |-> Str(<<"Q">>), username |-> Absent],
     [message |-> Str(<<" ", "q", " ">>), username |-> Str(<<"A", "w", "a">>)],
     [message |-> Str(<<" ", " ">>), username |-> Absent]}

StoreTeachBodies ==
    {[question |-> Str(<<"Q">>), answer |-> Str(<<"a">>)],
     [question |-> Str(<<" ", "q">>), answer |-> Str(<<" ", "b", " ">>)],
     [question |-> Str(<<"Q">>), answer |-> Str(<<" ">>)]}

\* one more chat may be accepted
ChatsLeft == Len(conversation_history) < 2 * MaxChats

StoreNext ==
    \/ \E t \in SeqThreads, body \in StoreChatBodies :
           /\ NoRequestInFlight
           /\ Validated(body) => ChatsLeft
           /\ ChatStart(t, body)
    \/ \E t \in SeqThreads : CheckCache(t)
    \/ \E t \in SeqThreads, out \in StoreSearchOutcomes : CheckWeb(t, out)
    \/ \E t \in SeqThreads, out \in StoreHfOutcomes : Generate(t, out)
    \/ \E t \in SeqThreads : TruncationCheck(t)
    \/ \E t \in SeqThreads, out \in StoreRepairOutcomes : Repair(t, out)
    \/ \E t \in SeqThreads : Finalize(t)
    \/ \E t \in SeqThreads, w \in WriteOutcomes : Respond(t, w)
    \/ \E t \in SeqThreads, body \in StoreTeachBodies, w \in WriteOutcomes :
           NoRequestInFlight /\ Teach(t, body, w)

StoreSpec == Init /\ [][StoreNext]_vars

-----------------------------------------------------------------------------
(* Two chats served at the same time by the threads of the development       *)
(* server; save_history, app.py:61-66, in the steps another thread can come  *)
(* between                                                                   *)

\* app.py:63: open(HISTORY_FILE, "w") empties the file; until something is
\* written json.load cannot read it
SaveOpen(t) ==
    LET l == locals[t]
    IN  /\ l.pc = "save"
        /\ history_file' = FileCorrupt
        /\ locals' = [locals EXCEPT ![t] = [l EXCEPT !.pc = "dump"]]
        /\ UNCHANGED <<running, knowledge_base, conversation_history, knowledge_file, reply>>
        /\ UNCHANGED trVars

\* app.py:64: json.dump serialises the list as it is now into the buffer of the
\* file object
SaveDump(t) ==
    LET l == locals[t]
    IN  /\ l.pc = "dump"
        /\ locals' = [locals EXCEPT ![t] =
               [l EXCEPT !.dumped = conversation_history, !.pc = "close"]]
        /\ UNCHANGED <<running, knowledge_base, conversation_history, knowledge_file,
                       history_file, reply>>
        /\ UNCHANGED trVars

\* the file after a buffer holding doc is written from its first byte on: what
\* another writer put there beyond the length of doc stays behind it, and
\* json.load cannot read the result
FlushOver(file, doc) ==
    IF file.state = "doc" /\ Len(file.doc) > Len(doc) THEN FileCorrupt ELSE FileDoc(doc)

\* app.py:63-64, leaving the with block: the buffer is written and the file
\* closed; app.py:309: the response
SaveClose(t) ==
    LET l == locals[t]
    IN  /\ l.pc = "close"
        /\ history_file' = FlushOver(history_file, l.dumped)
        /\ locals' = [locals EXCEPT ![t] = [l EXCEPT !.pc = "idle", !.write = "ok"]]
        /\ reply' = [reply EXCEPT ![t] = ChatReply(l.answer.val, l.source)]
        /\ UNCHANGED <<running, knowledge_base, conversation_history, knowledge_file>>
        /\ UNCHANGED trVars

\* the chat each thread serves
ConcChatBody ==
    [t \in Threads |->
        IF t = "t1" THEN [message |-> Str(<<"Q">>), username |-> Absent]
        ELSE [message |-> Str(<<" ", "q", "2", " ">>), username |-> Str(<<"A", "w", "a">>)]]

\* thread t has not received its request yet
NotStarted(t) == locals[t].request.endpoint = "none"

ConcNext ==
    \/ \E t \in Threads : NotStarted(t) /\ ChatStart(t, ConcChatBody[t])
    \/ \E t \in Threads : CheckCache(t)
    \/ \E t \in Threads, out \in StoreSearchOutcomes : CheckWeb(t, out)
    \/ \E t \in Threads, out \in StoreHfOutcomes : Generate(t, out)
    \/ \E t \in Threads : TruncationCheck(t)
    \/ \E t \in Threads, out \in StoreRepairOutcomes : Repair(t, out)
    \/ \E t \in Threads : Finalize(t)
    \/ \E t \in Threads : SaveOpen(t)
    \/ \E t \in Threads : SaveDump(t)
    \/ \E t \in Threads : SaveClose(t)

ConcSpec == Init /\ [][ConcNext]_vars

-----------------------------------------------------------------------------
(* is_last_word_truncated on its own: every text over TrAlphabet up to       *)
(* MaxTextLen characters, under every pair of thresholds                     *)

TrAlphabet == {"a", "eacute", "1", " ", ",", ".", "!", "?", "hellip", ";", ":"}

TrMinWords == {1, 2}

TrMinTotals == {0, 3}

TrInit ==
    /\ running = TRUE
    /\ history_file = FileAbsent
    /\ knowledge_file = FileAbsent
    /\ conversation_history = <<>>
    /\ knowledge_base = <<>>
    /\ locals = [t \in Threads |-> IdleLocals]
    /\ reply = [t \in Threads |-> NoReply]
    /\ tr_text = <<>>
    /\ tr_min_word \in TrMinWords
    /\ tr_min_total \in TrMinTotals
    /\ tr_result = is_last_word_truncated(<<>>, tr_min_word, tr_min_total)

\* one more character, then the call
TrExtend(c) ==
    /\ Len(tr_text) < MaxTextLen
    /\ tr_text' = Append(tr_text, c)
    /\ tr_result' = is_last_word_truncated(tr_text', tr_min_word, tr_min_total)
    /\ UNCHANGED <<tr_min_word, tr_min_total>>
    /\ UNCHANGED appVars

TrNext == \E c \in TrAlphabet : TrExtend(c)

TruncSpec == TrInit /\ [][TrNext]_vars

-----------------------------------------------------------------------------
(* Properties *)

\* the latest request of thread t was a chat and it has returned
ChatReturned(t) == locals[t].pc = "idle" /\ reply[t].endpoint = "chat"

\* the latest request of thread t was a chat that returned a body {response, source}
ChatAnswered(t) == ChatReturned(t) /\ reply[t].status = 200

\* positions in the call log of thread t of the calls of fn
CallsTo(t, fn) == {i \in 1..Len(locals[t].calls) : locals[t].calls[i].fn = fn}

\* a request field that is absent, empty or whitespace only
Blank(v) == v.tag = "absent" \/ \A i \in 1..Len(v.val) : v.val[i] \in Whitespace

\* the six sentence-terminal marks
SentenceMarks == {".", "!", "?", "hellip", ";", ":"}

\* the text begins with the error marker
ErrorMarked(s) == Len(s) >= 6 /\ SubSeq(s, 1, 6) = <<"E", "r", "r", "e", "u", "r">>

\* the lower-cased trimmed question of the teach request thread t made last
TaughtKey(t) == lower(strip(locals[t].request.body.question.val))

\* C1, in three parts. (a) Right after a successful teach of (q, a) the store holds
\* trim(a) under lower(trim(q)). (b) An entry of the store keeps its key and
\* position, and its answer changes only in a step that is a successful teach on
\* that key. (c) A chat that returns, and whose trimmed message lower-cases to a
\* key of the store, returns the answer stored under that key with source "exact".
\* Together: a taught answer is served for every letter case of the question
\* until a later teach on the same key replaces it, and then the newer one is.
C1_TaughtAnswerServedUntilOverwritten ==
    /\ [](\A t \in SeqThreads :
            reply[t].endpoint = "teach" /\ reply[t].status = 200
            => /\ HasKey(knowledge_base, TaughtKey(t))
               /\ Lookup(knowledge_base, TaughtKey(t)) = strip(locals[t].request.body.answer.val))
    /\ [][\A i \in 1..Len(knowledge_base) :
            /\ Len(knowledge_base') >= i
            /\ knowledge_base'[i].key = knowledge_base[i].key
            /\ knowledge_base'[i].value # knowledge_base[i].value
               => \E t \in SeqThreads :
                     /\ locals'[t].request.endpoint = "teach"
                     /\ reply'[t].status = 200
                     /\ lower(strip(locals'[t].request.body.question.val)) = knowledge_base[i].key]_vars
    /\ [](\A t \in SeqThreads :
            ChatAnswered(t) /\ HasKey(knowledge_base, lower(locals[t].user_input))
            => /\ reply[t].response = Lookup(knowledge_base, lower(locals[t].user_input))
               /\ reply[t].source = "exact")

\* C1 witness: the store holds "b" under "q", taught as " q" and " b ", and the
\* chat "Q" has returned "b" with source "exact"
C1_Witness ==
    /\ ChatAnswered("t1")
    /\ locals["t1"].request.body.message = Str(<<"Q">>)
    /\ knowledge_base = <<[key |-> <<"q">>, value |-> <<"b">>]>>
    /\ reply["t1"].response = <<"b">>
    /\ reply["t1"].source = "exact"

\* C2 as claimed: every validated chat that has returned carries one of the three
\* tags; when the store missed (the search was called), the tag is "web" and the
\* response the search text exactly when that text is a non-empty string without
\* the error marker, and the tag is "ai" in every other case.
C2_ProvenanceFollowsSearchResult ==
    \A t \in SeqThreads :
        ChatReturned(t) /\ Validated(locals[t].request.body)
        => /\ reply[t].status = 200
           /\ reply[t].source \in {"exact", "web", "ai"}
           /\ CallsTo(t, "search_serapi") # {}
              => LET found == search_serapi(locals[t].calls[1].out)
                 IN  IF found.tag = "str" /\ found.val # <<>> /\ ~ErrorMarked(found.val)
                     THEN reply[t].source = "web" /\ reply[t].response = found.val
                     ELSE reply[t].source = "ai"

\* C3 as claimed: once the primary generation call has failed, no repair call is
\* made, and the chat returns the failure message of query_hf unchanged, with
\* source "ai".
C3_GenerationFailureReturnedVerbatim ==
    \A t \in SeqThreads :
        \A i \in CallsTo(t, "query_hf") :
            HfFailed(locals[t].calls[i].out)
            => /\ CallsTo(t, "complete_last_word") = {}
               /\ ChatReturned(t)
                  => /\ reply[t].status = 200
                     /\ reply[t].source = "ai"
                     /\ reply[t].response = query_hf(locals[t].calls[i].out).val

\* the primary generation call of thread t answered {"generated_text": text}
Generated(t, text) ==
    \E i \in CallsTo(t, "query_hf") : locals[t].calls[i].out = HfDict(Str(text))

C5_SearchFailureFallsThroughToGeneration ==
    \A t \in SeqThreads :
        \A i \in CallsTo(t, "search_serapi") :
            locals[t].calls[i].out.kind # "json"
            => /\ search_serapi(locals[t].calls[i].out).tag = "str"
               /\ locals[t].source # "web"
               /\ locals[t].pc = "generate" \/ CallsTo(t, "query_hf") # {}
               /\ ChatReturned(t) => reply[t].source # "web"
               /\ ChatAnswered(t)
                  => /\ reply[t].source = "ai"
                     /\ reply[t].response # search_serapi(locals[t].calls[i].out).val

\* C5 witness: the search timed out and the chat returned the generated text
C5_Witness ==
    /\ ChatAnswered("t1")
    /\ Len(locals["t1"].calls) = 2
    /\ locals["t1"].calls[1] = [fn |-> "search_serapi", out |-> Timeout]
    /\ reply["t1"].source = "ai"
    /\ reply["t1"].response = TextVille

\* C6 as claimed: a chat that has returned was answered with a body
\* {response, source} when its trimmed message was not empty, whatever the search,
\* generation and repair calls and the history write did, and with the
\* validation error 400 only when it was empty.
C6_EveryValidatedChatIsAnswered ==
    \A t \in SeqThreads :
        ChatReturned(t)
        => IF Validated(locals[t].request.body)
           THEN reply[t].status = 200 /\ reply[t].source \in {"exact", "web", "ai"}
           ELSE reply[t].status = 400

\* the text query_hf returned to the latest chat of thread t
OriginalText(t) ==
    query_hf(locals[t].calls[CHOOSE i \in CallsTo(t, "query_hf") : TRUE].out).val

\* the repair call of thread t was made and gave no completion
RepairGaveNothing(t) ==
    /\ CallsTo(t, "complete_last_word") # {}
    /\ locals[t].extra.tag = "absent" \/ locals[t].extra.val = <<>>

\* C7: when the repair call gave no completion (the request failed, the document
\* had an unexpected shape, or the completion was empty), the answer is the text
\* as generated; the assistant turn appended to the log has that text as its
\* content, and so has the response returned.
C7_NoCompletionKeepsGeneratedText ==
    \A t \in SeqThreads :
        RepairGaveNothing(t)
        => /\ locals[t].answer = Str(OriginalText(t))
           /\ locals[t].pc \in {"save", "idle"}
              => conversation_history[Len(conversation_history)] =
                     Turn("assistant", ASSISTANT_NAME, OriginalText(t))
           /\ ChatReturned(t)
              => reply[t].status = 200 /\ reply[t].response = OriginalText(t)

\* C7 witness: the 47-character text was detected as truncated, the repair call
\* timed out, and the chat returned the 47 characters
C7_Witness ==
    /\ ChatAnswered("t1")
    /\ Generated("t1", TextLongVi)
    /\ Len(locals["t1"].calls) = 3
    /\ locals["t1"].calls[3] = [fn |-> "complete_last_word", out |-> Timeout]
    /\ reply["t1"].response = TextLongVi
    /\ conversation_history[Len(conversation_history)].content = TextLongVi

FinalWordToken(s) ==
    LET isWord(i) == s[i] \in {"a", "1", "_", "eacute"}
        ends == {i \in 1..Len(s) : isWord(i)}
        e == CHOOSE i \in ends : \A j \in ends : j <= i
        starts == {i \in 1..e : \A k \in i..e : isWord(k)}
        b == CHOOSE i \in starts : \A j \in starts : i <= j
    IN  IF ends = {} THEN <<>> ELSE SubSeq(s, b, e)

\* C9: is_last_word_truncated is true for every text whose trimmed form does not
\* end in a sentence-terminal mark, has at least min_total_length characters, and
\* whose final word token has at most min_word_length characters.
C9_ShortLastTokenIsTruncated ==
    LET t == strip(tr_text)
    IN  /\ ~(Len(t) > 0 /\ t[Len(t)] \in SentenceMarks)
        /\ Len(t) >= tr_min_total
        /\ FinalWordToken(t) # <<>>
        /\ Len(FinalWordToken(t)) <= tr_min_word
        => tr_result = TRUE

\* C9 witness: both thresholds met exactly: three characters for a minimum of
\* three, a last token of two for a minimum of two, after a comma
C9_Witness ==
    /\ tr_text = <<",", "a", "1", " ">>
    /\ tr_min_total = 3
    /\ tr_min_word = 2
    /\ tr_result = TRUE

\* C10: a step that serves a teach request whose question or answer is absent,
\* empty or whitespace only answers 400 and changes neither the knowledge store
\* nor the knowledge file.
C10_InvalidTeachChangesNothing ==
    [][\A t \in SeqThreads :
          /\ locals'[t].request.endpoint = "teach"
          /\ \/ Blank(locals'[t].request.body.question)
             \/ Blank(locals'[t].request.body.answer)
          => /\ reply'[t].endpoint = "teach"
             /\ reply'[t].status = 400
             /\ knowledge_base' = knowledge_base
             /\ knowledge_file' = knowledge_file]_vars

\* C10 witness: the store holds an answer under "q" that an earlier failed write
\* left out of the file, and the teach of "Q" with a whitespace-only answer has
\* been rejected: the entry is as it was and the file was not written
C10_Witness ==
    /\ locals["t1"].request = [endpoint |-> "teach",
                               body |-> [question |-> Str(<<"Q">>), answer |-> Str(<<" ", " ">>)]]
    /\ reply["t1"].status = 400
    /\ knowledge_base = <<[key |-> <<"q">>, value |-> <<"a">>]>>
    /\ knowledge_file = FileAbsent

\* C11: a step that serves a chat request whose message is absent, empty or
\* whitespace only answers 400 with the error body and leaves the request at rest:
\* the conversation log and the history file are as before, and the request has
\* made no search, generation or repair call.
C11_InvalidChatChangesNothing ==
    [][\A t \in SeqThreads :
          /\ locals'[t].request.endpoint = "chat"
          /\ Blank(locals'[t].request.body.message)
          => /\ reply'[t].endpoint = "chat"
             /\ reply'[t].status = 400
             /\ reply'[t].detail = CHAT_INVALID_MESSAGE
             /\ locals'[t].pc = "idle"
             /\ locals'[t].calls = <<>>
             /\ conversation_history' = conversation_history
             /\ history_file' = history_file]_vars

\* C11 witness: after one chat was answered and saved, the whitespace-only message
\* of Awa has been rejected: the log still has the two turns of the first chat and
\* the file still holds them
C11_Witness ==
    /\ locals["t1"].request.endpoint = "chat"
    /\ locals["t1"].request.body.message = Str(<<" ", " ">>)
    /\ reply["t1"].status = 400
    /\ Len(conversation_history) = 2
    /\ history_file = FileDoc(conversation_history)

\* the entry of the store under key is not in the knowledge file
NotOnDisk(key) ==
    \/ knowledge_file.state # "doc"
    \/ ~HasKey(knowledge_file.doc, key)
    \/ Lookup(knowledge_file.doc, key) # Lookup(knowledge_base, key)

\* C12, in two parts. (a) A teach with a non-blank question and answer whose file
\* write failed (the file could not be opened, or the dump broke off) has returned
\* the success message, and the store holds the trimmed answer under the
\* lower-cased trimmed question. (b) While an entry of the store is not in the
\* knowledge file, a chat that returns and whose trimmed message lower-cases to its
\* key returns the stored answer with source "exact" and makes no external call.
C12_FailedKnowledgeWriteIsSwallowed ==
    \A t \in SeqThreads :
        /\ /\ locals[t].request.endpoint = "teach"
           /\ ~Blank(locals[t].request.body.question)
           /\ ~Blank(locals[t].request.body.answer)
           /\ locals[t].write \in {"open_fails", "dump_fails"}
           => /\ reply[t] = TeachReply
              /\ HasKey(knowledge_base, TaughtKey(t))
              /\ Lookup(knowledge_base, TaughtKey(t)) = strip(locals[t].request.body.answer.val)
        /\ /\ ChatReturned(t)
           /\ HasKey(knowledge_base, lower(locals[t].user_input))
           /\ NotOnDisk(lower(locals[t].user_input))
           => /\ reply[t].status = 200
              /\ reply[t].source = "exact"
              /\ reply[t].response = Lookup(knowledge_base, lower(locals[t].user_input))
              /\ locals[t].calls = <<>>

\* C12 witness: the only teach so far broke off while dumping, which left the
\* knowledge file unreadable, and the chat "Q" has returned the taught "a" as "exact"
C12_Witness ==
    /\ ChatAnswered("t1")
    /\ locals["t1"].request.body.message = Str(<<"Q">>)
    /\ knowledge_file = FileCorrupt
    /\ knowledge_base = <<[key |-> <<"q">>, value |-> <<"a">>]>>
    /\ reply["t1"].response = <<"a">>
    /\ reply["t1"].source = "exact"

\* the module-level code has run and no request was received yet
AtStart == \A t \in Threads : locals[t] = IdleLocals /\ reply[t] = NoReply

\* C13 as claimed: at process start the process serves, whatever the two files
\* are; a history file that is absent or unreadable gives an empty log, and,
\* independently, a knowledge file that is absent or unreadable gives an empty store.
C13_StartupSurvivesUnreadableFiles ==
    AtStart
    => /\ running
       /\ history_file.state \in {"absent", "corrupt"} => conversation_history = <<>>
       /\ knowledge_file.state \in {"absent", "corrupt"} => knowledge_base = <<>>

\* the names of the external calls thread t has made, in the order made
CallNames(t) == [i \in 1..Len(locals[t].calls) |-> locals[t].calls[i].fn]

\* the three external calls in the order of the fallback chain
ChainOfCalls == <<"search_serapi", "query_hf", "complete_last_word">>

\* the stages of one chat in the order of the fallback chain
StageRank(pc) ==
    CASE pc = "check_cache" -> 1
      [] pc = "check_web" -> 2
      [] pc = "generate" -> 3
      [] pc = "truncation_check" -> 4
      [] pc = "repair" -> 5
      [] pc = "finalize" -> 6
      [] pc = "save" -> 7
      [] OTHER -> 0

\* the search gave a text that stands as the answer: a string with a character
\* that is not whitespace and without the error marker in front
UsableSearchText(v) == v.tag = "str" /\ ~Blank(v) /\ ~ErrorMarked(v.val)

\* C14, in two parts. (a) At every moment of a chat the external calls made so far
\* are a prefix of search, primary generation, repair: each is made at most once,
\* in that order, also after a call failed; a chat answered from the knowledge
\* store ("exact") has made no call; a chat whose search gave a usable text has
\* made the search call only. (b) A step inside a chat moves to a later stage of
\* cache lookup, search, generation, truncation check, repair, append, save, and a
\* step never removes a call from the calls made.
C14_StagesRunOnceInOrder ==
    /\ [](\A t \in SeqThreads :
            /\ Len(CallNames(t)) <= 3
            /\ CallNames(t) = SubSeq(ChainOfCalls, 1, Len(CallNames(t)))
            /\ locals[t].source = "exact" => CallNames(t) = <<>>
            /\ \A i \in CallsTo(t, "search_serapi") :
                   UsableSearchText(search_serapi(locals[t].calls[i].out))
                   => CallNames(t) = <<"search_serapi">>)
    /\ [][\A t \in SeqThreads :
             /\ StageRank(locals[t].pc) > 0 /\ StageRank(locals'[t].pc) > 0
                => /\ StageRank(locals'[t].pc) > StageRank(locals[t].pc)
                   /\ Len(locals'[t].calls) <= Len(locals[t].calls) + 1
                   /\ SubSeq(locals'[t].calls, 1, Len(locals[t].calls)) = locals[t].calls
             /\ StageRank(locals[t].pc) = 0 /\ StageRank(locals'[t].pc) > 0
                => locals'[t].pc = "check_cache" /\ locals'[t].calls = <<>>]_vars

\* C14 witness: a chat that went through every stage: the store missed, the search
\* timed out, the generation gave a truncated text, the repair call timed out, and
\* the chat returned with exactly these three calls made
C14_Witness ==
    /\ ChatAnswered("t1")
    /\ CallNames("t1") = ChainOfCalls
    /\ locals["t1"].calls[1].out = Timeout
    /\ locals["t1"].calls[3].out = Timeout

\* the roles of the turns of the log, in order
Roles(log) == [i \in 1..Len(log) |-> log[i].role]

\* C15 as claimed, with requests served one at a time and the log empty at start.
\* (a) Between requests the log has even length and its turns alternate user,
\* assistant. (b) When a validated chat has returned, the last two turns of the
\* log are its user turn (the trimmed message under the given username, or
\* "Utilisateur") and the assistant turn whose content is the response returned.
\* (c) A step keeps every earlier turn in place, a teach step leaves the log as it
\* is, and a validated chat adds two turns from start to return.
C15_LogGrowsByUserThenAssistant ==
    /\ [](NoRequestInFlight
            => /\ Len(conversation_history) % 2 = 0
               /\ \A i \in 1..Len(conversation_history) :
                      Roles(conversation_history)[i] = IF i % 2 = 1 THEN "user" ELSE "assistant")
    /\ [](\A t \in SeqThreads :
            ChatReturned(t) /\ Validated(locals[t].request.body)
            => LET n == Len(conversation_history)
               IN  /\ n >= 2
                   /\ conversation_history[n - 1] =
                          Turn("user",
                               GetField(locals[t].request.body.username, DEFAULT_USERNAME),
                               strip(locals[t].request.body.message.val))
                   /\ conversation_history[n] = Turn("assistant", ASSISTANT_NAME, reply[t].response))
    /\ [][/\ Len(conversation_history') >= Len(conversation_history)
          /\ SubSeq(conversation_history', 1, Len(conversation_history)) = conversation_history
          /\ \A t \in SeqThreads :
                 locals'[t].request.endpoint = "teach" /\ locals[t].pc = "idle"
                 => conversation_history' = conversation_history]_vars

\* C16: when a validated chat has returned and its write of the history file
\* succeeded, the file holds the whole log, every turn in order, whatever the file
\* held before (nothing, an unreadable rest of a failed dump, or fewer turns after
\* a failed write); when a valid teach has returned and its write of the knowledge
\* file succeeded, the file holds the whole store, every entry with its current
\* answer.
C16_SuccessfulSaveHoldsWholeStore ==
    \A t \in SeqThreads :
        /\ ChatAnswered(t) /\ locals[t].write = "ok"
           => history_file = FileDoc(conversation_history)
        /\ /\ locals[t].request.endpoint = "teach"
           /\ reply[t].status = 200
           /\ locals[t].write = "ok"
           => knowledge_file = FileDoc(knowledge_base)

\* C16 witness: the second chat has returned after a successful write and the file
\* holds all four turns, those of the first chat included
C16_Witness ==
    /\ ChatAnswered("t1")
    /\ locals["t1"].write = "ok"
    /\ Len(conversation_history) = 4
    /\ history_file.state = "doc"
    /\ Len(history_file.doc) = 4
    /\ history_file.doc[1] = conversation_history[1]

\* s without the whitespace at its end
TrimEnd(s) ==
    LET last == {i \in 1..Len(s) : s[i] \notin {" ", "\t", "\n", "\r", "\f"}}
    IN  IF last = {} THEN <<>> ELSE SubSeq(s, 1, CHOOSE i \in last : \A j \in last : j <= i)

\* s without the whitespace at its start
TrimStart(s) ==
    LET first == {i \in 1..Len(s) : s[i] \notin {" ", "\t", "\n", "\r", "\f"}}
    IN  IF first = {} THEN <<>> ELSE SubSeq(s, CHOOSE i \in first : \A j \in first : i <= j, Len(s))

\* s, with a period after it unless it ends in a sentence-terminal mark
Punctuated(s) ==
    IF Len(s) > 0 /\ s[Len(s)] \in SentenceMarks THEN s ELSE s \o <<".">>

\* the repair call of thread t was made and gave a completion
RepairGaveCompletion(t) ==
    /\ CallsTo(t, "complete_last_word") # {}
    /\ locals[t].extra.tag = "str"
    /\ locals[t].extra.val # <<>>

\* C17 as claimed: when a completion was found, the answer is the generated text
\* directly followed by the completion, without its trailing whitespace and nothing
\* else removed, with a period after it exactly when it does not end in one of the
\* six marks; the answer ends in one of the six marks, and it is the response.
C17_SpliceStripsTrailingWhitespaceOnly ==
    \A t \in SeqThreads :
        RepairGaveCompletion(t)
        => /\ locals[t].answer.val = Punctuated(TrimEnd(OriginalText(t) \o locals[t].extra.val))
           /\ locals[t].answer.val[Len(locals[t].answer.val)] \in SentenceMarks
           /\ ChatReturned(t) => reply[t].response = locals[t].answer.val

\* C17 amended: when a completion was found, the answer is the generated text
\* directly followed by the completion, without the whitespace at its start and at
\* its end and nothing else removed or inserted, with a period after it exactly
\* when it does not end in one of the six marks; the answer ends in one of the six
\* marks, and it is the response returned and the content of the assistant turn.
C17_SpliceStripsBothEnds ==
    \A t \in SeqThreads :
        RepairGaveCompletion(t)
        => /\ locals[t].answer.val =
                  Punctuated(TrimStart(TrimEnd(OriginalText(t) \o locals[t].extra.val)))
           /\ locals[t].answer.val[Len(locals[t].answer.val)] \in SentenceMarks
           /\ ChatReturned(t)
              => /\ reply[t].status = 200
                 /\ reply[t].response = locals[t].answer.val
                 /\ conversation_history[Len(conversation_history)].content = locals[t].answer.val

\* C17 witness: the generated text began with a blank and broke off in "vi", the
\* repair call gave " lle", taken as "lle"; the response is the text without its
\* first blank, "lle" joined on without a blank, and a period
C17_Witness ==
    /\ ChatAnswered("t1")
    /\ Generated("t1", <<" ">> \o TextLongVi)
    /\ locals["t1"].extra = Str(CompletionLleBare)
    /\ reply["t1"].response = TextLongVille

\* s begins with p
HasPrefix(s, p) == Len(s) >= Len(p) /\ \A i \in 1..Len(p) : s[i] = p[i]

\* the text the repair call of thread t returned, when it returned one
RepairText(t) ==
    locals[t].calls[CHOOSE i \in CallsTo(t, "complete_last_word") : TRUE].out.generated_text

\* the repair call of thread t returned a text that begins with the whole partial text
RepairEchoedPartial(t) ==
    /\ CallsTo(t, "complete_last_word") # {}
    /\ locals[t].calls[CHOOSE i \in CallsTo(t, "complete_last_word") : TRUE].out.kind = "json"
    /\ RepairText(t).tag = "str"
    /\ HasPrefix(RepairText(t).val, OriginalText(t))

\* C18 as claimed: when the text the repair call returned begins with the whole
\* partial text, the completion is what follows that prefix without its leading
\* whitespace, and there is no completion when nothing is left; the completion
\* does not begin with the partial text again, whether or not the partial text
\* has whitespace at its start or end.
C18_EchoedPartialTextIsCutOff ==
    \A t \in SeqThreads :
        RepairEchoedPartial(t)
        => LET suffix == TrimStart(SubSeq(RepairText(t).val, Len(OriginalText(t)) + 1,
                                          Len(RepairText(t).val)))
           IN  /\ locals[t].extra = IF suffix = <<>> THEN Absent ELSE Str(suffix)
               /\ locals[t].extra.tag = "str"
                  => ~HasPrefix(locals[t].extra.val, TrimStart(TrimEnd(OriginalText(t))))

\* a letter of the tokenization: a word character that is neither a digit nor "_"
IsLetter(c) == c \in {"a", "eacute"}

\* a decimal digit
IsDigit(c) == c = "1"

\* C19 as claimed: for a text whose trimmed form does not end in a
\* sentence-terminal mark, has at least min_total_length characters, and whose
\* final word token is longer than min_word_length, is_last_word_truncated is true
\* exactly when the token ends in a digit then a letter or a letter then a digit,
\* an accented letter being a letter.
C19_MixedEndingCountsAccentedLetters ==
    LET t == strip(tr_text)
        last == FinalWordToken(t)
        n == Len(last)
    IN  /\ ~(Len(t) > 0 /\ t[Len(t)] \in SentenceMarks)
        /\ Len(t) >= tr_min_total
        /\ n > tr_min_word
        => tr_result = (\/ IsDigit(last[n - 1]) /\ IsLetter(last[n])
                        \/ IsLetter(last[n - 1]) /\ IsDigit(last[n]))

\* the user turn of the chat thread t served
UserTurnOf(t) ==
    Turn("user", GetField(locals[t].request.body.username, DEFAULT_USERNAME),
         strip(locals[t].request.body.message.val))

\* the assistant turn that carries the response returned to thread t
AssistantTurnOf(t) == Turn("assistant", ASSISTANT_NAME, reply[t].response)

\* C20 as claimed: when two validated chats served at the same time have both
\* returned, whatever the order of their steps, the log that was empty has four
\* turns: for each request its user turn and, after it, its assistant turn with
\* the response returned to that request as content, at four different places;
\* and the history file, as the save that completed last left it, holds all four
\* turns.
C20_ConcurrentChatsLoseNoTurn ==
    (\A t \in Threads : ChatAnswered(t))
    => /\ Len(conversation_history) = 4
       /\ \E u1, a1, u2, a2 \in 1..4 :
              /\ Cardinality({u1, a1, u2, a2}) = 4
              /\ u1 < a1 /\ u2 < a2
              /\ conversation_history[u1] = UserTurnOf("t1")
              /\ conversation_history[a1] = AssistantTurnOf("t1")
              /\ conversation_history[u2] = UserTurnOf("t2")
              /\ conversation_history[a2] = AssistantTurnOf("t2")
       /\ history_file = FileDoc(conversation_history)

====
